---- MODULE Spec2Model ----
(***************************************************************************)
(* MeshOptimizerGD: the Godot 4 GDExtension wrapper around meshoptimizer   *)
(* (addons/meshoptimizer/src/meshoptimizer_gdext.cpp).                     *)
(*                                                                         *)
(* The state is the caller's arrays (vertices, indices, uvs), the last     *)
(* call made on the MeshOptimizerGD object (op, args), what it returned    *)
(* (status, result) and what it did on the way (probe: the target handed   *)
(* to the library, the library routine reached, out-of-range reads, the    *)
(* remap table, the warning branch).                                       *)
(*                                                                         *)
(* The meshopt_* routines live in ../thirdparty/meshoptimizer.h, which is  *)
(* not part of the sources at hand: they are modelled from the written     *)
(* specification (sections 4.2 - 4.5, 7) as nondeterministic choices over  *)
(* the outputs that specification allows.  A call that breaks a routine's  *)
(* precondition has undefined behaviour: the routine aborts or leaves an   *)
(* unspecified buffer behind.                                              *)
(***************************************************************************)
EXTENDS Integers, Sequences, FiniteSets, TLC

VARIABLES vertices, indices, uvs, op, args, status, result, probe

vars == <<vertices, indices, uvs, op, args, status, result, probe>>

(***************************************************************************)
(* Bounds of the model.                                                    *)
(***************************************************************************)
MaxVerts == 3
MaxIndices == 6

(***************************************************************************)
(* godot::Mesh::ArrayType, as used by simplify_mesh_arrays.                *)
(***************************************************************************)
ARRAY_VERTEX == 0
ARRAY_NORMAL == 1
ARRAY_COLOR == 3
ARRAY_TEX_UV == 4
ARRAY_INDEX == 12
ARRAY_MAX == 13

Max(a, b) == IF a >= b THEN a ELSE b

(***************************************************************************)
(* unsigned int / int32_t.  TLC's integers are 32 bits wide, so the two's  *)
(* complement conversion is modelled at 16 bits: -1 becomes the all-ones   *)
(* word and back.                                                          *)
(***************************************************************************)
UIntRange == 2^16

ToUnsigned(v) == v % UIntRange

ToSigned(u) == IF u >= UIntRange \div 2 THEN u - UIntRange ELSE u

\* std::vector<unsigned int> index_data: index_data[i] = static_cast<unsigned int>(indices[i])
ConvertIndices(buffer) == [i \in 1..Len(buffer) |-> ToUnsigned(buffer[i])]

\* new_indices[i] = static_cast<int32_t>(simplified_indices[i]), i < new_index_count
ConvertBack(data, count) == [i \in 1..count |-> ToSigned(data[i])]

(***************************************************************************)
(* The inputs a caller can hand over.                                      *)
(***************************************************************************)
Points == {<<0, 0, 0>>, <<1, 0, 0>>}

ZeroVector == <<0, 0, 0>>

PackedVector3Arrays == UNION {[1..n -> Points] : n \in 0..MaxVerts}

TextureCoords == {<<0, 0>>}

PackedVector2Arrays == UNION {[1..n -> TextureCoords] : n \in 0..MaxVerts}

TriangleChoices ==
    {<<0, 0, 0>>, <<0, 1, 2>>, <<2, 1, 0>>, <<-1, 0, 0>>, <<0, 0, MaxVerts>>}

TailChoices == {<<>>, <<0>>, <<0, 1>>}

RECURSIVE TriangleLists(_)
TriangleLists(n) ==
    IF n = 0 THEN {<<>>}
    ELSE LET prev == TriangleLists(n - 1)
         IN  prev \cup {p \o t : p \in prev, t \in TriangleChoices}

PackedInt32Arrays ==
    {b \in {l \o t : l \in TriangleLists(MaxIndices \div 3), t \in TailChoices} :
        Len(b) <= MaxIndices}

\* target_ratio as a fraction <<numerator, denominator>>: 0.0, 0.5, 1.0, 1.5
TargetRatios == {<<0, 1>>, <<1, 2>>, <<1, 1>>, <<3, 2>>}

\* threshold, in the unit of the point coordinates
Thresholds == {0, 1}

VertexCounts == -1..MaxVerts

(***************************************************************************)
(* What a call records besides its result.                                 *)
(***************************************************************************)
NoProbe ==
    [target |-> 0, lib |-> "none", oob |-> FALSE, warned |-> FALSE,
     remap |-> <<>>]

Returned(dict, p) == [status |-> "returned", result |-> dict, probe |-> p]

Aborted(p) == [status |-> "aborted", result |-> <<>>, probe |-> p]

(***************************************************************************)
(* meshoptimizer, from the specification.                                  *)
(***************************************************************************)
\* An IndexBuffer: length divisible by 3, every value < vertex count.
ValidIndexBuffer(index_data, vertex_count) ==
    /\ Len(index_data) % 3 = 0
    /\ \A i \in 1..Len(index_data) : index_data[i] < vertex_count

InRange(index_data, vertex_count) ==
    \A i \in 1..Len(index_data) : index_data[i] < vertex_count

\* The whole triangles of a buffer whose length is not divisible by 3.
WholeTriangles(index_data) == SubSeq(index_data, 1, 3 * (Len(index_data) \div 3))

Zeros(n) == [i \in 1..n |-> 0]

\* A routine called outside its precondition has undefined behaviour.  It may
\* abort (its assertions).  If it does not: with every index in range it works
\* on the whole triangles it finds (`proceeds`); with an index out of range it
\* reads and writes outside its tables and leaves an unspecified buffer (here:
\* the input echoed, or the zeroed destination left as it was).
Abort == [abort |-> TRUE, count |-> 0, data |-> <<>>, error |-> 0]

UndefinedOutcomes(index_data, vertex_count, proceeds) ==
    {Abort}
    \cup IF InRange(index_data, vertex_count) THEN proceeds
         ELSE {[abort |-> FALSE, count |-> Len(index_data), data |-> d, error |-> 0] :
                 d \in {index_data, Zeros(Len(index_data))}}

\* The vertex merges a run of collapses (or a clustering grid) amounts to.
CollapseMaps(vertex_count) ==
    {f \in [0..(vertex_count - 1) -> 0..(vertex_count - 1)] :
        \A v \in DOMAIN f : f[f[v]] = f[v]}

RECURSIVE DropDegenerate(_)
DropDegenerate(s) ==
    IF Len(s) < 3 THEN <<>>
    ELSE LET rest == DropDegenerate(SubSeq(s, 4, Len(s)))
         IN  IF s[1] = s[2] \/ s[2] = s[3] \/ s[1] = s[3]
             THEN rest
             ELSE SubSeq(s, 1, 3) \o rest

Collapsed(f, index_data) ==
    DropDegenerate([i \in 1..Len(index_data) |-> f[index_data[i]]])

\* Edge-collapse simplifier (4.2): collapses while above the target, never
\* below it; the error bound may stop it at any earlier point.
EdgeCollapse(index_data, vertex_count, target_index_count) ==
    LET reduced == {Collapsed(f, index_data) : f \in CollapseMaps(vertex_count)}
        kept == {c \in reduced :
                    Len(c) < Len(index_data) /\ Len(c) >= target_index_count}
    IN  {[abort |-> FALSE, count |-> Len(c), data |-> c,
          error |-> IF c = index_data THEN 0 ELSE 1] :
            c \in {index_data} \cup kept}

meshopt_simplify(index_data, index_count, vertex_count, target_index_count) ==
    IF ValidIndexBuffer(index_data, vertex_count)
    THEN EdgeCollapse(index_data, vertex_count, target_index_count)
    ELSE UndefinedOutcomes(index_data, vertex_count,
             EdgeCollapse(WholeTriangles(index_data), vertex_count,
                          target_index_count))

\* The attribute-weighted variant (4.1, 4.2): same collapses, other priorities.
meshopt_simplifyWithAttributes(index_data, index_count, vertex_count, target_index_count) ==
    meshopt_simplify(index_data, index_count, vertex_count, target_index_count)

\* Sloppy simplifier (4.3): clusters vertices per grid cell, drops degenerates.
Clustering(index_data, vertex_count) ==
    {[abort |-> FALSE, count |-> Len(c), data |-> c,
      error |-> IF c = index_data THEN 0 ELSE 1] :
        c \in {Collapsed(f, index_data) : f \in CollapseMaps(vertex_count)}}

meshopt_simplifySloppy(index_data, index_count, vertex_count, target_index_count) ==
    IF ValidIndexBuffer(index_data, vertex_count)
    THEN Clustering(index_data, vertex_count)
    ELSE UndefinedOutcomes(index_data, vertex_count,
             Clustering(WholeTriangles(index_data), vertex_count))

\* Vertex cache optimizer (4.4): the same triangles, windings kept, reordered.
TrianglePermutations(n) ==
    {p \in [1..n -> 1..n] : \A a, b \in 1..n : p[a] = p[b] => a = b}

Reordered(index_data, p) ==
    [i \in 1..Len(index_data) |->
        index_data[3 * (p[((i - 1) \div 3) + 1] - 1) + ((i - 1) % 3) + 1]]

\* The destination holds index_count entries; entries past the last whole
\* triangle are not written and keep the zero they were created with.
Reorderings(index_data, index_count) ==
    {[abort |-> FALSE, count |-> index_count,
      data |-> Reordered(index_data, p) \o Zeros(index_count - Len(index_data)),
      error |-> 0] : p \in TrianglePermutations(Len(index_data) \div 3)}

meshopt_optimizeVertexCache(index_data, index_count, vertex_count) ==
    IF ValidIndexBuffer(index_data, vertex_count)
    THEN Reorderings(index_data, index_count)
    ELSE UndefinedOutcomes(index_data, vertex_count,
             Reorderings(WholeTriangles(index_data), index_count))

\* Remap engine (4.5): one pass over the vertex buffer in input order, the
\* first vertex of a group of equal ones is canonical, canonical indices are
\* dense.  The routine is given no tolerance: vertices are compared exactly.
Unassigned == UIntRange - 1

FirstIndex(vertex_data, i) ==
    CHOOSE j \in 1..i :
        /\ vertex_data[j] = vertex_data[i]
        /\ \A k \in 1..(j - 1) : vertex_data[k] # vertex_data[i]

GenerateRemap(vertex_data) ==
    [i \in 1..Len(vertex_data) |->
        Cardinality({j \in 1..FirstIndex(vertex_data, i) :
                        FirstIndex(vertex_data, j) = j}) - 1]

\* Outside its precondition the routine aborts or proceeds; with an index out
\* of range it may also leave the table as it was cleared (all unassigned).
meshopt_generateVertexRemap(index_data, has_indices, vertex_data, vertex_count) ==
    LET computed == [abort |-> FALSE, remap |-> GenerateRemap(vertex_data),
                     unique_count |->
                        Cardinality({vertex_data[i] : i \in 1..vertex_count})]
    IN  IF ~has_indices \/ ValidIndexBuffer(index_data, vertex_count)
        THEN {computed}
        ELSE {[abort |-> TRUE, remap |-> <<>>, unique_count |-> 0], computed}
             \cup IF InRange(index_data, vertex_count) THEN {}
                  ELSE {[abort |-> FALSE,
                         remap |-> [i \in 1..vertex_count |-> Unassigned],
                         unique_count |-> 0]}

\* destination[remap[i]] = vertices[i] for every assigned i, in order; the
\* destination starts zeroed (std::vector<float> remapped_vertices).
meshopt_remapVertexBuffer(vertex_data, vertex_count, remap, unique_count) ==
    [k \in 1..unique_count |->
        LET from == {i \in 1..vertex_count : remap[i] = k - 1}
        IN  IF from = {} THEN ZeroVector
            ELSE vertex_data[CHOOSE i \in from : \A j \in from : j <= i]]

(***************************************************************************)
(* MeshOptimizerGD.                                                        *)
(***************************************************************************)
\* The emptiness test with the index half forgotten.
EmptyInput_VerticesOnly(vertex_array, index_array) ==
    Len(vertex_array) = 0

\* if (vertices.size() == 0 || indices.size() == 0)
EmptyInput(vertex_array, index_array) ==
    Len(vertex_array) = 0 \/ Len(index_array) = 0

\* static_cast<size_t>(index_count * target_ratio); if (< 3) = 3
TargetIndexCount(index_count, target_ratio) ==
    Max(3, (index_count * target_ratio[1]) \div target_ratio[2])

\* The Dictionary with the vertex buffer compacted to the vertices still in use.
SimplifyResult_Compacted(vertex_array, new_indices, result_error, index_count) ==
    LET used == {new_indices[i] : i \in 1..Len(new_indices)}
        kept == SelectSeq([k \in 1..Len(vertex_array) |-> k - 1],
                          LAMBDA k : k \in used)
    IN  [indices |-> new_indices,
         vertices |-> [i \in 1..Len(kept) |-> vertex_array[kept[i] + 1]],
         result_error |-> result_error,
         original_triangles |-> index_count \div 3,
         simplified_triangles |-> Len(new_indices) \div 3]

\* The Dictionary simplify and simplify_sloppy return.
SimplifyResult(vertex_array, new_indices, result_error, index_count) ==
    [indices |-> new_indices,
     vertices |-> vertex_array,
     result_error |-> result_error,
     original_triangles |-> index_count \div 3,
     simplified_triangles |-> Len(new_indices) \div 3]

\* The Dictionary simplify_with_attributes returns on its own path.
AttributeResult(vertex_array, uv_array, new_indices, result_error, index_count) ==
    [indices |-> new_indices,
     vertices |-> vertex_array,
     uvs |-> uv_array,
     result_error |-> result_error,
     original_triangles |-> index_count \div 3,
     simplified_triangles |-> Len(new_indices) \div 3]

simplify(vertex_array, index_array, target_ratio) ==
    IF EmptyInput(vertex_array, index_array)
    THEN {Returned([error |-> "Empty input"], NoProbe)}
    ELSE LET vertex_count == Len(vertex_array)
             index_count == Len(index_array)
             target_index_count == TargetIndexCount(index_count, target_ratio)
             index_data == ConvertIndices(index_array)
             p == [NoProbe EXCEPT !.target = target_index_count,
                                  !.lib = "meshopt_simplify"]
         IN  {IF o.abort THEN Aborted(p)
              ELSE Returned(SimplifyResult(vertex_array,
                                ConvertBack(o.data, o.count), o.error, index_count), p) :
                o \in meshopt_simplify(index_data, index_count, vertex_count,
                                       target_index_count)}

simplify_with_attributes(vertex_array, index_array, uv_array, target_ratio) ==
    IF EmptyInput(vertex_array, index_array)
    THEN {Returned([error |-> "Empty input"], NoProbe)}
    ELSE LET vertex_count == Len(vertex_array)
             index_count == Len(index_array)
             target_index_count == TargetIndexCount(index_count, target_ratio)
             index_data == ConvertIndices(index_array)
             p == [NoProbe EXCEPT !.target = target_index_count,
                                  !.lib = "meshopt_simplifyWithAttributes"]
         IN  IF Len(uv_array) = vertex_count
             THEN {IF o.abort THEN Aborted(p)
                   ELSE Returned(AttributeResult(vertex_array, uv_array,
                                     ConvertBack(o.data, o.count), o.error,
                                     index_count), p) :
                     o \in meshopt_simplifyWithAttributes(index_data, index_count,
                                       vertex_count, target_index_count)}
             ELSE simplify(vertex_array, index_array, target_ratio)

simplify_sloppy(vertex_array, index_array, target_ratio) ==
    IF EmptyInput(vertex_array, index_array)
    THEN {Returned([error |-> "Empty input"], NoProbe)}
    ELSE LET vertex_count == Len(vertex_array)
             index_count == Len(index_array)
             target_index_count == TargetIndexCount(index_count, target_ratio)
             index_data == ConvertIndices(index_array)
             p == [NoProbe EXCEPT !.target = target_index_count,
                                  !.lib = "meshopt_simplifySloppy"]
         IN  {IF o.abort THEN Aborted(p)
              ELSE Returned(SimplifyResult(vertex_array,
                                ConvertBack(o.data, o.count), o.error, index_count), p) :
                o \in meshopt_simplifySloppy(index_data, index_count, vertex_count,
                                             target_index_count)}

optimize_vertex_cache(index_array, vertex_count) ==
    IF Len(index_array) = 0 \/ vertex_count <= 0
    THEN {Returned(index_array, NoProbe)}
    ELSE LET index_count == Len(index_array)
             index_data == ConvertIndices(index_array)
             p == [NoProbe EXCEPT !.lib = "meshopt_optimizeVertexCache"]
         IN  {IF o.abort THEN Aborted(p)
              ELSE Returned(ConvertBack(o.data, index_count), p) :
                o \in meshopt_optimizeVertexCache(index_data, index_count,
                                                  vertex_count)}

\* if (vertices.size() == 0) in weld_vertices
EmptyVertices(vertex_array) == Len(vertex_array) = 0

\* What a read past the end of a std::vector can yield.
UndefinedReads == {0, Unassigned}

\* remap[indices[i]] stays inside the remap table
InRemap(index, vertex_count) == index >= 0 /\ index < vertex_count

weld_vertices(vertex_array, index_array, threshold) ==
    IF EmptyVertices(vertex_array)
    THEN {Returned([error |-> "Empty vertices"], NoProbe)}
    ELSE LET vertex_count == Len(vertex_array)
             has_indices == Len(index_array) > 0
             index_count == IF has_indices THEN Len(index_array) ELSE vertex_count
             oob == \E i \in 1..Len(index_array) :
                        ~InRemap(index_array[i], vertex_count)
             p == [NoProbe EXCEPT !.lib = "meshopt_generateVertexRemap"]
         IN  UNION {
               IF g.abort THEN {Aborted(p)}
               ELSE LET new_vertices ==
                            meshopt_remapVertexBuffer(vertex_array, vertex_count,
                                                      g.remap, g.unique_count)
                    IN  {Returned(
                           [vertices |-> new_vertices,
                            indices |->
                              [i \in 1..Len(index_array) |->
                                 IF InRemap(index_array[i], vertex_count)
                                 THEN ToSigned(g.remap[index_array[i] + 1])
                                 ELSE ToSigned(u)],
                            original_count |-> vertex_count,
                            unique_count |-> g.unique_count],
                           [p EXCEPT !.oob = oob, !.remap = g.remap]) :
                         u \in IF oob THEN UndefinedReads ELSE {0}} :
               g \in meshopt_generateVertexRemap(ConvertIndices(index_array),
                                                 has_indices, vertex_array,
                                                 vertex_count)}

\* godot::Variant and godot::Array (an Array is a function on 0 .. size-1)
Variant(type, value) == [type |-> type, value |-> value]

Nil == Variant("NIL", <<>>)

EmptyArray == [k \in {} |-> Nil]

ArraySize(array) == Cardinality(DOMAIN array)

\* The early return for an empty mesh left out.
EmptyMesh_Unchecked(vertex_array, index_array) == FALSE

\* if (vertices.size() == 0 || indices.size() == 0) return mesh_arrays;
EmptyMesh(vertex_array, index_array) ==
    Len(vertex_array) = 0 \/ Len(index_array) = 0

\* result.resize(ARRAY_MAX) and the entries copied into it
BuildArrays(mesh_arrays, simplified, has_uvs) ==
    [k \in 0..(ARRAY_MAX - 1) |->
        IF k = ARRAY_VERTEX THEN Variant("PACKED_VECTOR3_ARRAY", simplified.vertices)
        ELSE IF k = ARRAY_INDEX THEN Variant("PACKED_INT32_ARRAY", simplified.indices)
        ELSE IF k = ARRAY_TEX_UV /\ has_uvs THEN mesh_arrays[ARRAY_TEX_UV]
        ELSE IF k = ARRAY_NORMAL
                /\ mesh_arrays[ARRAY_NORMAL].type = "PACKED_VECTOR3_ARRAY"
             THEN mesh_arrays[ARRAY_NORMAL]
        ELSE IF k = ARRAY_COLOR
                /\ mesh_arrays[ARRAY_COLOR].type = "PACKED_COLOR_ARRAY"
             THEN mesh_arrays[ARRAY_COLOR]
        ELSE Nil]

simplify_mesh_arrays(mesh_arrays, target_ratio) ==
    IF ArraySize(mesh_arrays) < ARRAY_MAX
    THEN {Returned(EmptyArray, NoProbe)}
    ELSE LET v_vertices == mesh_arrays[ARRAY_VERTEX]
             v_indices == mesh_arrays[ARRAY_INDEX]
         IN  IF \/ v_vertices.type # "PACKED_VECTOR3_ARRAY"
                \/ v_indices.type # "PACKED_INT32_ARRAY"
             THEN {Returned(EmptyArray, NoProbe)}
             ELSE IF EmptyMesh(v_vertices.value, v_indices.value)
             THEN {Returned(mesh_arrays, NoProbe)}
             ELSE LET v_uvs == mesh_arrays[ARRAY_TEX_UV]
                      has_uvs == v_uvs.type = "PACKED_VECTOR2_ARRAY"
                      uv_array == IF has_uvs THEN v_uvs.value ELSE <<>>
                      simplified ==
                          IF has_uvs /\ Len(uv_array) = Len(v_vertices.value)
                          THEN simplify_with_attributes(v_vertices.value,
                                   v_indices.value, uv_array, target_ratio)
                          ELSE simplify(v_vertices.value, v_indices.value,
                                        target_ratio)
                  IN  {IF s.status = "aborted" THEN s
                       ELSE IF "error" \in DOMAIN s.result
                       THEN Returned(mesh_arrays, [s.probe EXCEPT !.warned = TRUE])
                       ELSE Returned(BuildArrays(mesh_arrays, s.result, has_uvs),
                                     s.probe) :
                         s \in simplified}

(***************************************************************************)
(* The mesh arrays a caller builds from its buffers: the standard layout   *)
(* of surface_get_arrays, and the arrays that differ from it in one place. *)
(***************************************************************************)
StandardArrays ==
    [k \in 0..(ARRAY_MAX - 1) |->
        IF k = ARRAY_VERTEX THEN Variant("PACKED_VECTOR3_ARRAY", vertices)
        ELSE IF k = ARRAY_INDEX THEN Variant("PACKED_INT32_ARRAY", indices)
        ELSE IF k = ARRAY_TEX_UV THEN Variant("PACKED_VECTOR2_ARRAY", uvs)
        ELSE IF k = ARRAY_NORMAL THEN Variant("PACKED_VECTOR3_ARRAY", vertices)
        ELSE IF k = ARRAY_COLOR
             THEN Variant("PACKED_COLOR_ARRAY", [i \in 1..Len(vertices) |-> 0])
        ELSE Nil]

MeshArrays ==
    {StandardArrays, [k \in 0..(ARRAY_MAX - 2) |-> StandardArrays[k]]}
    \cup {[StandardArrays EXCEPT ![k] = Nil] :
            k \in {ARRAY_VERTEX, ARRAY_INDEX, ARRAY_TEX_UV, ARRAY_NORMAL, ARRAY_COLOR}}
    \cup {[StandardArrays EXCEPT ![k] = Variant("PACKED_INT32_ARRAY", indices)] :
            k \in {ARRAY_VERTEX, ARRAY_TEX_UV, ARRAY_NORMAL, ARRAY_COLOR}}

(***************************************************************************)
(* The state machine: the caller holds its arrays and calls one method at  *)
(* a time; each action is one whole call.                                  *)
(***************************************************************************)
Init ==
    /\ vertices \in PackedVector3Arrays
    /\ indices \in PackedInt32Arrays
    /\ uvs \in {u \in PackedVector2Arrays : Len(u) \in {0, Len(vertices)}}
    /\ op = "none"
    /\ args = <<>>
    /\ status = "idle"
    /\ result = <<>>
    /\ probe = NoProbe

Call(name, arguments, o) ==
    /\ op' = name
    /\ args' = arguments
    /\ status' = o.status
    /\ result' = o.result
    /\ probe' = o.probe
    /\ UNCHANGED <<vertices, indices, uvs>>

Simplify ==
    /\ status = "idle"
    /\ \E r \in TargetRatios : \E o \in simplify(vertices, indices, r) :
           Call("simplify", [target_ratio |-> r], o)

SimplifyWithAttributes ==
    /\ status = "idle"
    /\ \E r \in TargetRatios : \E o \in simplify_with_attributes(vertices, indices, uvs, r) :
           Call("simplify_with_attributes", [target_ratio |-> r], o)

SimplifySloppy ==
    /\ status = "idle"
    /\ \E r \in TargetRatios : \E o \in simplify_sloppy(vertices, indices, r) :
           Call("simplify_sloppy", [target_ratio |-> r], o)

SimplifyMeshArrays ==
    /\ status = "idle"
    /\ \E m \in MeshArrays : \E r \in TargetRatios :
           \E o \in simplify_mesh_arrays(m, r) :
               Call("simplify_mesh_arrays", [mesh_arrays |-> m, target_ratio |-> r], o)

OptimizeVertexCache ==
    /\ status = "idle"
    /\ \E n \in VertexCounts : \E o \in optimize_vertex_cache(indices, n) :
           Call("optimize_vertex_cache", [vertex_count |-> n], o)

WeldVertices ==
    /\ status = "idle"
    /\ \E t \in Thresholds : \E o \in weld_vertices(vertices, indices, t) :
           Call("weld_vertices", [threshold |-> t], o)

\* The caller drops what the call returned and is ready for the next call.
Release ==
    /\ status = "returned"
    /\ op' = "none"
    /\ args' = <<>>
    /\ status' = "idle"
    /\ result' = <<>>
    /\ probe' = NoProbe
    /\ UNCHANGED <<vertices, indices, uvs>>

Next ==
    \/ Simplify
    \/ SimplifyWithAttributes
    \/ SimplifySloppy
    \/ SimplifyMeshArrays
    \/ OptimizeVertexCache
    \/ WeldVertices
    \/ Release

Spec == Init /\ [][Next]_vars

(***************************************************************************)
(* Claims.                                                                 *)
(***************************************************************************)
SimplifyOps == {"simplify", "simplify_with_attributes", "simplify_sloppy"}

HasKey(dict, key) == key \in DOMAIN dict

\* C9: no operation mutates the caller's vertex, index and UV arrays, and the
\* "vertices" entry a simplify operation returns is the input vertex sequence.
C9_InputsNotMutated ==
    [][/\ vertices' = vertices
       /\ indices' = indices
       /\ uvs' = uvs
       /\ (op' \in SimplifyOps /\ status' = "returned" /\ HasKey(result', "vertices"))
            => result'.vertices = vertices]_vars

C9_Simplified ==
    /\ status = "returned"
    /\ op \in SimplifyOps
    /\ HasKey(result, "vertices")
    /\ Len(indices) = 6
    /\ Len(result.indices) = 3
    /\ result.result_error > 0
    /\ result.vertices = vertices

\* A call is degenerate when it is a simplify operation given zero vertices or
\* zero indices, or weld_vertices given zero vertices.
Degenerate ==
    \/ op \in SimplifyOps /\ (Len(vertices) = 0 \/ Len(indices) = 0)
    \/ op = "weld_vertices" /\ Len(vertices) = 0

VertexCountOf ==
    IF op = "optimize_vertex_cache" THEN args.vertex_count ELSE Len(vertices)

StructurallyInvalid ==
    \/ Len(indices) % 3 # 0
    \/ \E i \in 1..Len(indices) : indices[i] < 0 \/ indices[i] >= VertexCountOf

BufferOps == SimplifyOps \cup {"optimize_vertex_cache", "weld_vertices"}

\* C2: a call whose index buffer has a length not divisible by 3 or a value
\* that is negative or >= the vertex count returns an error result, never
\* reaches the meshoptimizer routine and never reads out of range.
C2_InvalidInputRejected ==
    (status # "idle" /\ op \in BufferOps /\ StructurallyInvalid) =>
        /\ probe.lib = "none"
        /\ ~probe.oob
        /\ status = "returned"
        /\ op # "optimize_vertex_cache"
        /\ HasKey(result, "error")

\* C3: the target index count handed to the simplifier lies in [3, index_count].
C3_TargetClamped ==
    (op \in SimplifyOps /\ probe.lib # "none") =>
        /\ probe.target >= 3
        /\ probe.target <= Len(indices)

\* The index buffer a call returned, if it returned one.
ReturnsIndices ==
    /\ status = "returned"
    /\ op \in BufferOps
    /\ op # "optimize_vertex_cache" => HasKey(result, "indices")

ReturnedIndices ==
    IF op = "optimize_vertex_cache" THEN result ELSE result.indices

\* C4: the returned index buffer is no longer than the input index buffer, its
\* length is divisible by 3, and simplified_triangles <= original_triangles.
C4_OutputBounds ==
    ReturnsIndices =>
        /\ Len(ReturnedIndices) <= Len(indices)
        /\ Len(ReturnedIndices) % 3 = 0
        /\ op \in SimplifyOps =>
             result.simplified_triangles <= result.original_triangles

\* C5: every returned index is < the length of the returned vertex buffer
\* (simplify operations) or < unique_count, the length of the deduplicated
\* vertex buffer (weld_vertices).
C5_IndexValidity ==
    (ReturnsIndices /\ op # "optimize_vertex_cache") =>
        /\ \A i \in 1..Len(result.indices) :
             ToUnsigned(result.indices[i]) < Len(result.vertices)
        /\ op = "weld_vertices" => result.unique_count = Len(result.vertices)

\* Squared Euclidean distance of two positions.
DistanceSquared(a, b) ==
    (a[1] - b[1]) * (a[1] - b[1]) + (a[2] - b[2]) * (a[2] - b[2])
    + (a[3] - b[3]) * (a[3] - b[3])

JudgedEqual(a, b, threshold) ==
    IF threshold = 0 THEN a = b
    ELSE DistanceSquared(a, b) <= threshold * threshold

\* C6: weld_vertices gives two vertices the same canonical index iff they are
\* equal under the threshold (exactly equal at 0, within distance <= threshold
\* otherwise).  Stated for calls with a well-formed index buffer.
C6_WeldHonoursThreshold ==
    (status = "returned" /\ op = "weld_vertices" /\ ~StructurallyInvalid
        /\ ~HasKey(result, "error")) =>
        \A i, j \in 1..Len(vertices) :
            (probe.remap[i] = probe.remap[j])
                <=> JudgedEqual(vertices[i], vertices[j], args.threshold)

\* C7: the remap table has one entry per original vertex, every entry lies in
\* [0, unique_count), and canonical indices are handed out in first-seen order
\* over the vertex buffer: each entry repeats an earlier one or is the next
\* unused number.
C7_RemapDenseFirstSeen ==
    (status = "returned" /\ op = "weld_vertices" /\ ~HasKey(result, "error")) =>
        /\ Len(probe.remap) = Len(vertices)
        /\ \A i \in 1..Len(probe.remap) :
             /\ probe.remap[i] >= 0
             /\ probe.remap[i] < result.unique_count
             /\ probe.remap[i] <=
                  Cardinality({probe.remap[j] : j \in 1..(i - 1)})

\* Two triangles with the same winding: equal up to rotation.
SameWinding(s, t) ==
    \/ s = t
    \/ s = <<t[2], t[3], t[1]>>
    \/ s = <<t[3], t[1], t[2]>>

Triangle(buffer, k) == SubSeq(buffer, 3 * k - 2, 3 * k)

\* C8: the output of optimize_vertex_cache holds the same multiset of
\* triangles as the input, windings kept, and no index value is altered.
C8_CachePreservesTriangles ==
    (status = "returned" /\ op = "optimize_vertex_cache") =>
        /\ Len(result) = Len(indices)
        /\ \E p \in TrianglePermutations(Len(indices) \div 3) :
             \A k \in 1..(Len(indices) \div 3) :
                SameWinding(Triangle(result, k), Triangle(indices, p[k]))
        /\ \A i \in (3 * (Len(indices) \div 3) + 1)..Len(indices) :
             result[i] = indices[i]

\* simplify_mesh_arrays turns its argument away: too few entries, or a vertex
\* or index entry of the wrong type.
MalformedArrays(m) ==
    \/ ArraySize(m) < ARRAY_MAX
    \/ m[ARRAY_VERTEX].type # "PACKED_VECTOR3_ARRAY"
    \/ m[ARRAY_INDEX].type # "PACKED_INT32_ARRAY"

EmptyArrays(m) ==
    Len(m[ARRAY_VERTEX].value) = 0 \/ Len(m[ARRAY_INDEX].value) = 0

\* An attribute entry as simplify_mesh_arrays carries it over: kept when it
\* has the packed type expected at its place, null otherwise.
CarriedOver(m, k, type) == IF m[k].type = type THEN m[k] ELSE Nil

====
